---- MODULE Spec2Model ----
(***************************************************************************)
(* Model of the backup rotator (cmd/rotator/main.go): Read scans the       *)
(* source directory, Rotate clears the destination, selects the files to   *)
(* keep, links them into the destination and removes the others.           *)
(*                                                                         *)
(* Go slices are modelled with their backing array: FoundFiles is a view   *)
(* of `found.arr`, and SelectedFiles, created as FoundFiles[:Keep], shares *)
(* that array until an append exceeds its capacity.                        *)
(***************************************************************************)
EXTENDS Integers, Sequences, FiniteSets, TLC

\* ------------------------------------------------------------------ bounds
MaxFiles == 3       \* most entries in the source directory at the start
MaxKeep == 3        \* largest --keep
MaxQuota == 2       \* largest --keep-days and --keep-weeks
MaxRuns == 2        \* successive runs of the program on the same directories
MaxFault == 2       \* latest call of a stage that the filesystem can fail

\* --keep-months and --keep-years: the tier is off or keeps one bucket.
OffOrOne == {0, 1}

\* ------------------------------------------------------- directory entries
\* The base file names the source directory can hold, in the byte order of
\* the names (the order os.ReadDir lists them in).
\*   stamp: the name contains \d{4}-\d{2}-\d{2}T\d{2}-\d{2}-\d{2}
\*   ext:   what follows the stamp
BaseNames ==
  << [str |-> "2024-01-01T00-00-00.sql.gz", stamp |-> TRUE, ext |-> ".sql.gz",
      y |-> 2024, mo |-> 1, d |-> 1, h |-> 0, mi |-> 0, s |-> 0],
     [str |-> "2024-12-29T00-00-00.sql.gz", stamp |-> TRUE, ext |-> ".sql.gz",
      y |-> 2024, mo |-> 12, d |-> 29, h |-> 0, mi |-> 0, s |-> 0],
     [str |-> "2024-12-30T00-00-00.sql.gz", stamp |-> TRUE, ext |-> ".sql.gz",
      y |-> 2024, mo |-> 12, d |-> 30, h |-> 0, mi |-> 0, s |-> 0],
     [str |-> "2024-12-30T12-00-00.sql.gz", stamp |-> TRUE, ext |-> ".sql.gz",
      y |-> 2024, mo |-> 12, d |-> 30, h |-> 12, mi |-> 0, s |-> 0],
     [str |-> "2024-13-01T00-00-00.sql.gz", stamp |-> TRUE, ext |-> ".sql.gz",
      y |-> 2024, mo |-> 13, d |-> 1, h |-> 0, mi |-> 0, s |-> 0],
     [str |-> "2025-01-01T00-00-00.sql.gz", stamp |-> TRUE, ext |-> ".sql.gz",
      y |-> 2025, mo |-> 1, d |-> 1, h |-> 0, mi |-> 0, s |-> 0],
     [str |-> "2025-readme.txt", stamp |-> FALSE, ext |-> ".txt",
      y |-> 0, mo |-> 0, d |-> 0, h |-> 0, mi |-> 0, s |-> 0] >>

NumBase == Len(BaseNames)

Tags == <<"daily", "keep", "monthly", "weekly", "yearly">>   \* in byte order

TagSet == {Tags[i] : i \in 1..Len(Tags)}

\* A file name is a base name behind zero or more "<tag>-" prefixes (the
\* names link() builds).  base = 0 with no prefix is the empty string.
MkName(pfx, base) == [pfx |-> pfx, base |-> base]

EmptyName == MkName(<<>>, 0)

\* destPath of link(): tag + "-" + result.Name
LinkName(tag, name) == MkName(<<tag>> \o name.pfx, name.base)

TagRank == [t \in TagSet |-> CHOOSE i \in 1..Len(Tags) : Tags[i] = t]

\* A name is a sequence of tokens, its tags and then its base.  Every base
\* name starts with a digit and every tag with a letter, so in byte order a
\* base sorts before a tag, bases sort by their index and tags by their
\* rank.  NameOrd reads the tokens as the digits of a number, most
\* significant first, so that the byte order of names is the order of
\* their numbers.  A name of the source has at most one tag at the start
\* and every run adds at most one, so names have at most MaxTags tags.
MaxTags == MaxRuns + 1

RECURSIVE Pow(_, _)
Pow(b, e) == IF e = 0 THEN 1 ELSE b * Pow(b, e - 1)

RECURSIVE PfxOrd(_, _)
PfxOrd(pfx, place) ==
  IF pfx = <<>> THEN 0
  ELSE (NumBase + TagRank[Head(pfx)]) * Pow(NumBase + Len(Tags) + 1, place)
       + PfxOrd(Tail(pfx), place - 1)

NameOrd(name) ==
  PfxOrd(name.pfx, MaxTags)
  + name.base * Pow(NumBase + Len(Tags) + 1, MaxTags - Len(name.pfx))

\* os.ReadDir: the entries of a directory sorted by file name.
RECURSIVE ReadDir(_)
FirstThen(S, first) == <<first>> \o ReadDir(S \ {first})

ReadDir(S) ==
  IF S = {} THEN <<>>
  ELSE FirstThen(S, CHOOSE a \in S : \A b \in S : NameOrd(a) <= NameOrd(b))

\* ---------------------------------------------------------------- calendar
IsLeap(y) == (y % 4 = 0 /\ y % 100 # 0) \/ y % 400 = 0

DaysIn(y, m) ==
  IF m = 2 THEN (IF IsLeap(y) THEN 29 ELSE 28)
  ELSE IF m \in {4, 6, 9, 11} THEN 30 ELSE 31

\* Days from Monday 2001-01-01 to January 1st of year y.
DaysBeforeYear(y) ==
  365 * (y - 2001) + ((y - 1) \div 4 - (y - 1) \div 100 + (y - 1) \div 400) - 485

RECURSIVE DaysBeforeMonth(_, _)
DaysBeforeMonth(y, m) ==
  IF m = 1 THEN 0 ELSE DaysBeforeMonth(y, m - 1) + DaysIn(y, m - 1)

\* Zero-based day of the year.
YDay(t) == DaysBeforeMonth(t.y, t.mo) + t.d - 1

AbsDay(t) == DaysBeforeYear(t.y) + YDay(t)

\* time.Weekday: Sunday = 0 ... Saturday = 6.
Weekday(abs) == (abs + 1) % 7

YearOfAbs(abs) ==
  CHOOSE y \in 2001..2100 : DaysBeforeYear(y) <= abs /\ abs < DaysBeforeYear(y + 1)

\* time.Time.ISOWeek: year and week of the Thursday of the date's week.
ISOWeek(t) ==
  LET abs == AbsDay(t)
      d0  == 4 - Weekday(abs)
      d   == IF d0 = 4 THEN -3 ELSE d0
      thu == abs + d
      yr  == YearOfAbs(thu)
  IN  <<yr, (thu - DaysBeforeYear(yr)) \div 7 + 1>>

\* Seconds since 2001-01-01T00:00:00, the instant Time.After compares.
Instant(t) == AbsDay(t) * 86400 + t.h * 3600 + t.mi * 60 + t.s

ZeroTime == [y |-> 1, mo |-> 1, d |-> 1, h |-> 0, mi |-> 0, s |-> 0]

\* ------------------------------------------------------------------- Read
\* re.FindStringSubmatch(file.Name()): the pattern is not anchored, so a
\* name matches when it holds a stamp directly followed by ".sql.gz",
\* whatever precedes or follows (tag prefixes, ".bak").
MatchingBases ==
  {b \in 1..NumBase : BaseNames[b].stamp
                      /\ BaseNames[b].ext \in {".sql.gz", ".sql.gz.bak"}}

Matches(name) == name.base \in MatchingBases

\* time.Parse("2006-01-02T15-04-05", matches[1]) succeeds: every field is
\* in range and the day exists in the month.
ParsableBases ==
  {b \in MatchingBases :
     /\ BaseNames[b].mo \in 1..12
     /\ BaseNames[b].d \in 1..DaysIn(BaseNames[b].y, BaseNames[b].mo)
     /\ BaseNames[b].h \in 0..23
     /\ BaseNames[b].mi \in 0..59
     /\ BaseNames[b].s \in 0..59}

ParseOK(name) == name.base \in ParsableBases

\* The time.Time time.Parse returns (UTC).
Parse(name) ==
  LET b == BaseNames[name.base]
  IN  [y |-> b.y, mo |-> b.mo, d |-> b.d, h |-> b.h, mi |-> b.mi, s |-> b.s]

\* The times of the parsable names, and their instants computed once.
Times == {Parse(MkName(<<>>, b)) : b \in ParsableBases}

InstantOf == [t \in Times |-> Instant(t)]

\* Time.After
After(t, u) == InstantOf[t] > InstantOf[u]

BackupFile(name, time, tags) == [Name |-> name, Time |-> time, Tags |-> tags]

ZeroFile == BackupFile(EmptyName, ZeroTime, <<>>)

\* Capacity after append() grows a full slice of 64-byte BackupFile values.
GrowCap(cap) == IF cap = 0 THEN 1 ELSE 2 * cap

\* The scan loop of Read: the BackupFile list in directory order.
RECURSIVE Scan(_)
Scan(entries) ==
  IF entries = <<>> THEN <<>>
  ELSE LET name == Head(entries)
       IN  (IF Matches(name) /\ ParseOK(name)
            THEN <<BackupFile(name, Parse(name), <<>>)>>
            ELSE <<>>) \o Scan(Tail(entries))

\* Capacity of a slice built by n appends to make([]BackupFile, 0).
AppendCap(len, cap) == IF len < cap THEN cap ELSE GrowCap(cap)

RECURSIVE CapAfter(_)
CapAfter(n) == IF n = 0 THEN 0 ELSE AppendCap(n - 1, CapAfter(n - 1))

\* Insert x into the sorted prefix: it moves left past every element it is
\* After (the inner loop of the insertion sort sort.Slice runs on a short
\* slice), so elements with equal times keep their order.
RECURSIVE InsertSorted(_, _)
InsertSorted(sorted, x) ==
  IF sorted = <<>> THEN <<x>>
  ELSE LET last == sorted[Len(sorted)]
       IN  IF After(x.Time, last.Time)
           THEN InsertSorted(SubSeq(sorted, 1, Len(sorted) - 1), x) \o <<last>>
           ELSE sorted \o <<x>>

RECURSIVE SortNewestFirst(_)
SortNewestFirst(fs) ==
  IF fs = <<>> THEN <<>>
  ELSE InsertSorted(SortNewestFirst(SubSeq(fs, 1, Len(fs) - 1)), fs[Len(fs)])

\* Pad a list with zero values up to the capacity of its backing array.
Padded(fs, cap) == [i \in 1..cap |-> IF i <= Len(fs) THEN fs[i] ELSE ZeroFile]

\* r.FoundFiles after Read on a readable directory: backing array and length.
Slice(fs) == [arr |-> Padded(fs, CapAfter(Len(fs))), len |-> Len(fs)]

ReadFiles(dir) == Slice(SortNewestFirst(Scan(ReadDir(dir))))

\* ----------------------------------------------------------------- Rotate
\* The bucket keys of the tier loop.  The week key pairs the ISO week
\* number with the calendar year (Time.Year), as the Sprintf does.
Key(tier, t) ==
  CASE tier = "daily"   -> <<t.y, t.mo, t.d>>
    [] tier = "weekly"  -> <<t.y, ISOWeek(t)[2]>>
    [] tier = "monthly" -> <<t.y, t.mo>>
    [] tier = "yearly"  -> <<t.y>>

Tiers == {"daily", "weekly", "monthly", "yearly"}

\* The keys of every time, computed once.
KeyOf == [tier \in Tiers |-> [t \in Times |-> Key(tier, t)]]

Quota(pol, tier) ==
  CASE tier = "daily"   -> pol.KeepDays
    [] tier = "weekly"  -> pol.KeepWeeks
    [] tier = "monthly" -> pol.KeepMonths
    [] tier = "yearly"  -> pol.KeepYears

NilSlice == [shared |-> FALSE, own |-> <<>>, len |-> 0]

\* The elements a slice shows: SelectedFiles reads the backing array of
\* FoundFiles while it shares it, its own array afterwards.
View(arr, sel) ==
  IF sel.shared THEN [i \in 1..sel.len |-> arr[i]] ELSE sel.own

\* r.SelectedFiles = append(r.SelectedFiles, backup): written in place into
\* the shared backing array while there is capacity left (overwriting the
\* element of FoundFiles at that index), copied to a new array otherwise.
AppendSelected(st, backup) ==
  IF st.sel.shared
  THEN IF st.sel.len < Len(st.arr)
       THEN [st EXCEPT !.arr[st.sel.len + 1] = backup,
                       !.sel.len = st.sel.len + 1]
       ELSE [st EXCEPT !.sel = [shared |-> FALSE,
                                own |-> View(st.arr, st.sel) \o <<backup>>,
                                len |-> st.sel.len + 1]]
  ELSE [st EXCEPT !.sel.own = Append(st.sel.own, backup),
                  !.sel.len = st.sel.len + 1]

\* Admits with the quota compared by <= instead of <.
AdmitsOneMore(map, key, quota) == key \notin map /\ Cardinality(map) <= quota

\* The admission test of one tier: the key has no representative yet and
\* the tier's map holds fewer keys than its quota.
Admits(map, key, quota) == key \notin map /\ Cardinality(map) < quota

\* One `if` of the tier loop.  acc = [st, backup]; the maps are kept as the
\* sets of their keys (their values are never read).
Selects(st, b, tier, key) ==
  [st |-> AppendSelected([st EXCEPT ![tier] = @ \cup {key}], b), backup |-> b]

TierStep(acc, pol, tier) ==
  IF Admits(acc.st[tier], KeyOf[tier][acc.backup.Time], Quota(pol, tier))
  THEN Selects(acc.st, [acc.backup EXCEPT !.Tags = Append(@, tier)], tier,
               KeyOf[tier][acc.backup.Time])
  ELSE acc

\* The body of the tier loop for the element at (1-based) index i of the
\* backing array, read when the iteration starts.
TierBody(st, pol, i) ==
  TierStep(TierStep(TierStep(TierStep([st |-> st, backup |-> st.arr[i]],
                                      pol, "daily"),
                             pol, "weekly"),
                    pol, "monthly"),
           pol, "yearly").st

\* TierLoop leaving out the last element of FoundFiles.
RECURSIVE TierLoopStopsEarly(_, _, _, _)
TierLoopStopsEarly(st, pol, i, n) ==
  IF i >= n THEN st ELSE TierLoopStopsEarly(TierBody(st, pol, i), pol, i + 1, n)

RECURSIVE TierLoop(_, _, _, _)
TierLoop(st, pol, i, n) ==
  IF i > n THEN st ELSE TierLoop(TierBody(st, pol, i), pol, i + 1, n)

\* The names of the elements the tier loop reads, in the order of its
\* iterations: iteration i reads the element at index i of the backing
\* array as the appends of the earlier iterations left it.
RECURSIVE OfferedLoop(_, _, _, _)
OfferedLoop(st, pol, i, n) ==
  IF i > n THEN <<>>
  ELSE <<st.arr[i].Name>> \o OfferedLoop(TierBody(st, pol, i), pol, i + 1, n)

\* TagHead with the loop stopping one element early.
TagHeadShort(arr, keep, n) ==
  [i \in 1..Len(arr) |->
     IF i < keep /\ i <= n THEN [arr[i] EXCEPT !.Tags = Append(@, "keep")]
     ELSE arr[i]]

\* The head loop: FoundFiles[i] gets the tag "keep" for i < Keep, i < len.
TagHead(arr, keep, n) ==
  [i \in 1..Len(arr) |->
     IF i <= keep /\ i <= n THEN [arr[i] EXCEPT !.Tags = Append(@, "keep")]
     ELSE arr[i]]

\* Lines 128-170 of Rotate.  FoundFiles[:Keep] panics when Keep exceeds the
\* capacity, FoundFiles[Keep:] when Keep exceeds the length.
Outcome(panic, st) == [panic |-> panic, arr |-> st.arr, sel |-> st.sel]

\* Classify with the tier loop ranging over FoundFiles[Keep-1:], the last
\* file of the head included.
ClassifyFromHead(fnd, pol) ==
  IF pol.Keep < 0 \/ pol.Keep > Len(fnd.arr)
  THEN [panic |-> TRUE, arr |-> fnd.arr, sel |-> NilSlice]
  ELSE IF pol.Keep > fnd.len
  THEN [panic |-> TRUE, arr |-> TagHead(fnd.arr, pol.Keep, fnd.len),
        sel |-> [shared |-> TRUE, own |-> <<>>, len |-> pol.Keep]]
  ELSE Outcome(FALSE,
         TierLoop([arr |-> TagHead(fnd.arr, pol.Keep, fnd.len),
                   sel |-> [shared |-> TRUE, own |-> <<>>, len |-> pol.Keep],
                   daily |-> {}, weekly |-> {}, monthly |-> {}, yearly |-> {}],
                  pol, IF pol.Keep = 0 THEN 1 ELSE pol.Keep, fnd.len))

Classify(fnd, pol) ==
  IF pol.Keep < 0 \/ pol.Keep > Len(fnd.arr)
  THEN [panic |-> TRUE, arr |-> fnd.arr, sel |-> NilSlice]
  ELSE IF pol.Keep > fnd.len
  THEN [panic |-> TRUE, arr |-> TagHead(fnd.arr, pol.Keep, fnd.len),
        sel |-> [shared |-> TRUE, own |-> <<>>, len |-> pol.Keep]]
  ELSE Outcome(FALSE,
         TierLoop([arr |-> TagHead(fnd.arr, pol.Keep, fnd.len),
                   sel |-> [shared |-> TRUE, own |-> <<>>, len |-> pol.Keep],
                   daily |-> {}, weekly |-> {}, monthly |-> {}, yearly |-> {}],
                  pol, pol.Keep + 1, fnd.len))

\* The names the tier loop of Rotate reads from FoundFiles[Keep:], for
\* Keep <= len(FoundFiles).
Offered(fnd, pol) ==
  OfferedLoop([arr |-> TagHead(fnd.arr, pol.Keep, fnd.len),
               sel |-> [shared |-> TRUE, own |-> <<>>, len |-> pol.Keep],
               daily |-> {}, weekly |-> {}, monthly |-> {}, yearly |-> {}],
              pol, pol.Keep + 1, fnd.len)

\* ------------------------------------------------------ link, remove, clear
\* The (tag, name) pairs link() visits, in order.
RECURSIVE TagPairs(_, _)
TagPairs(name, tags) ==
  IF tags = <<>> THEN <<>>
  ELSE <<[tag |-> Head(tags), name |-> name]>> \o TagPairs(name, Tail(tags))

RECURSIVE LinkPairs(_)
LinkPairs(sel) ==
  IF sel = <<>> THEN <<>>
  ELSE TagPairs(Head(sel).Name, Head(sel).Tags) \o LinkPairs(Tail(sel))

\* The loop of link() over a destination that exists: os.Symlink is called
\* for a pair whose destPath is not there yet; the call number `fail` fails
\* and ends the loop.  calls counts the os.Symlink calls made so far.
RECURSIVE LinkLoop(_, _, _, _)
LinkOne(dir, dest, rest, calls, fail) ==
  IF dest \in dir THEN LinkLoop(dir, rest, calls, fail)
  ELSE IF calls + 1 = fail THEN [dir |-> dir, err |-> TRUE]
  ELSE LinkLoop(dir \cup {dest}, rest, calls + 1, fail)

LinkLoop(dir, pairs, calls, fail) ==
  IF pairs = <<>> THEN [dir |-> dir, err |-> FALSE]
  ELSE LinkOne(dir, LinkName(Head(pairs).tag, Head(pairs).name), Tail(pairs),
               calls, fail)

\* link(): in a destination that does not exist os.Lstat reports that the
\* path is missing and the first os.Symlink fails.
\* The directories after an operation left directory d as r.dir.
Put(dirs, d, r) == [dirs |-> [dirs EXCEPT ![d] = r.dir], err |-> r.err]

link(dirs, dst, sel, fail) ==
  IF dst \notin DOMAIN dirs
  THEN [dirs |-> dirs, err |-> LinkPairs(sel) # <<>>]
  ELSE Put(dirs, dst, LinkLoop(dirs[dst], LinkPairs(sel), 0, fail))

\* resultMap of remove(): the names of SelectedFiles.
ResultMap(sel) == {sel[i].Name : i \in 1..Len(sel)}

\* The loop of remove() over FoundFiles: an unselected name is removed from
\* the source directory unless Dry; the first os.Remove that fails (the
\* file is not there, or call number `fail`) ends the loop.
RECURSIVE RemoveLoop(_, _, _, _, _, _)
RemoveLoop(dir, fnd, keep, dry, calls, fail) ==
  IF fnd = <<>> THEN [dir |-> dir, err |-> FALSE]
  ELSE IF Head(fnd).Name \in keep \/ dry
  THEN RemoveLoop(dir, Tail(fnd), keep, dry, calls, fail)
  ELSE IF Head(fnd).Name \notin dir \/ calls + 1 = fail
  THEN [dir |-> dir, err |-> TRUE]
  ELSE RemoveLoop(dir \ {Head(fnd).Name}, Tail(fnd), keep, dry, calls + 1, fail)

remove(dirs, src, fnd, sel, dry, fail) ==
  Put(dirs, src, RemoveLoop(dirs[src], fnd, ResultMap(sel), dry, 0, fail))

\* clear(): every entry of the destination is removed in directory order;
\* os.ReadDir fails on a missing destination, and os.Remove number `fail`
\* fails and ends the loop.
ClearLoop(files, fail) ==
  IF fail \in 1..Len(files)
  THEN [dir |-> {files[i] : i \in fail..Len(files)}, err |-> TRUE]
  ELSE [dir |-> {}, err |-> FALSE]

\* clear() returning without removing anything.
clearNothing(dirs, dst, fail) ==
  [dirs |-> dirs, err |-> dst \notin DOMAIN dirs]

clear(dirs, dst, fail) ==
  IF dst \notin DOMAIN dirs THEN [dirs |-> dirs, err |-> TRUE]
  ELSE Put(dirs, dst, ClearLoop(ReadDir(dirs[dst]), fail))

\* ---------------------------------------------------------- state machine
VARIABLES
  Dry, Keep, KeepDays, KeepWeeks, KeepMonths, KeepYears,  \* the policy flags
  SourceDir, DestinationDir,   \* "S", "D", or "X" for a path that is missing
  fs,              \* the directories: "S" and "D" -> the set of entry names
  found,           \* r.FoundFiles: [arr: backing array, len]
  selected,        \* r.SelectedFiles: [shared, own, len]
  pc,              \* where the process is: main, clear, select, link,
                   \* remove, exit
  exit,            \* exit status of the process once pc = "exit", else -1
  runs,            \* number of the current run
  scanned,         \* history: the list Read returned in this run
  srcBefore,       \* history: the source directory when this run started
  dstBefore,       \* history: the destination when this run started
  fsfail,          \* history: a filesystem operation failed in this run
  first,           \* history: the outcome of the first run, once over
  faults,          \* environment: per stage, the number of the os.Remove or
                   \* os.Symlink call that fails in the first run (0: none)
  failed           \* history: the stages that returned an error in this run

vars == <<Dry, Keep, KeepDays, KeepWeeks, KeepMonths, KeepYears, SourceDir,
          DestinationDir, fs, found, selected, pc, exit, runs, scanned,
          srcBefore, dstBefore, fsfail, first, faults, failed>>

config == <<Dry, Keep, KeepDays, KeepWeeks, KeepMonths, KeepYears, SourceDir,
            DestinationDir>>

Policy == [Keep |-> Keep, KeepDays |-> KeepDays, KeepWeeks |-> KeepWeeks,
           KeepMonths |-> KeepMonths, KeepYears |-> KeepYears]

FoundFiles == [i \in 1..found.len |-> found.arr[i]]

SelectedFiles == View(found.arr, selected)

Dir(d) == IF d \in DOMAIN fs THEN fs[d] ELSE {}

\* What the destination holds before the first run: a link of an earlier
\* rotation and a file that is no link.
StaleEntries == {MkName(<<"weekly">>, 1), MkName(<<>>, NumBase)}

\* What the source directory can hold before the first run: the base names
\* and "keep-2024-01-01T00-00-00.sql.gz", a name of the form link() builds.
\* The pattern of Read is not anchored, so such an entry is scanned as a
\* backup file with the timestamp of its base.
SourceNames == {MkName(<<>>, b) : b \in 1..NumBase} \cup {MkName(<<"keep">>, 1)}

\* The usual configuration: a source and a separate destination, both
\* existing.  The other configurations (a missing directory, the source
\* as its own destination) are explored with the small policies only.
Usual == SourceDir = "S" /\ DestinationDir = "D"

SmallPolicy ==
  Keep <= 1 /\ KeepDays <= 1 /\ KeepWeeks <= 1 /\ KeepMonths = 0 /\ KeepYears = 0

NoRun == [done |-> FALSE, sel |-> <<>>, src |-> {}, dst |-> {}, exit |-> -1,
          failed |-> {}]

Stages == {"clear", "link", "remove"}

\* The filesystem fails no call.
NoFaults == [stage \in Stages |-> 0]

\* The call of a stage that fails in the current run.
Fault(stage) == IF runs = 1 THEN faults[stage] ELSE 0

Init ==
  /\ Dry \in BOOLEAN
  /\ SourceDir \in {"S", "X"}
  /\ DestinationDir \in {"D", "S", "X"}
  /\ SourceDir = "X" => DestinationDir = "D"
  /\ Keep \in 0..MaxKeep
  /\ KeepDays \in 0..MaxQuota
  /\ KeepWeeks \in 0..MaxQuota
  /\ KeepMonths \in OffOrOne
  /\ KeepYears \in OffOrOne
  /\ Usual \/ SmallPolicy
  /\ \E src \in SUBSET SourceNames :
       /\ Cardinality(src) <= MaxFiles
       /\ SourceDir = "X" => src = {}
       /\ fs = [d \in {"S", "D"} |->
                  IF d = "S" THEN src
                  ELSE IF DestinationDir = "D" THEN StaleEntries ELSE {}]
       /\ srcBefore = src
       /\ dstBefore = (IF DestinationDir = "S" THEN src
                       ELSE IF DestinationDir = "D" THEN StaleEntries ELSE {})
  /\ found = [arr |-> <<>>, len |-> 0]
  /\ selected = NilSlice
  /\ pc = "main"
  /\ exit = -1
  /\ runs = 1
  /\ scanned = <<>>
  /\ fsfail = FALSE
  /\ first = NoRun
  /\ faults = NoFaults
  /\ failed = {}

\* main, lines 229-261: Read; a read error is returned (exit status 1), an
\* empty list returns the nil error (exit status 0).
ReadFails ==
  /\ pc = "main"
  /\ SourceDir \notin DOMAIN fs
  /\ pc' = "exit"
  /\ exit' = 1
  /\ fsfail' = TRUE
  /\ failed' = {"read"}
  /\ UNCHANGED <<config, faults, fs, found, selected, runs, scanned, srcBefore,
                 dstBefore, first>>

ReadEmpty ==
  /\ pc = "main"
  /\ SourceDir \in DOMAIN fs
  /\ \A name \in fs[SourceDir] : ~(Matches(name) /\ ParseOK(name))
  /\ found' = [arr |-> <<>>, len |-> 0]
  /\ scanned' = <<>>
  /\ pc' = "exit"
  /\ exit' = 0
  /\ UNCHANGED <<config, faults, fs, selected, runs, srcBefore, dstBefore, fsfail,
                 first, failed>>

Read ==
  /\ pc = "main"
  /\ SourceDir \in DOMAIN fs
  /\ {name \in fs[SourceDir] : Matches(name) /\ ParseOK(name)} # {}
  /\ found' = ReadFiles(fs[SourceDir])
  /\ scanned' = [i \in 1..found'.len |-> found'.arr[i]]
  /\ pc' = "clear"
  /\ UNCHANGED <<config, faults, fs, selected, exit, runs, srcBefore, dstBefore,
                 fsfail, first, failed>>

\* The outcome r of a filesystem stage: the directories as it leaves them;
\* its error, if any, is dropped or printed and the run goes on.
Done(r) ==
  /\ fs' = r.dirs
  /\ fsfail' = (fsfail \/ r.err)

\* The same, remembering the stage whose function returned the error.
Staged(stage, r) ==
  /\ Done(r)
  /\ failed' = (IF r.err THEN failed \cup {stage} ELSE failed)

\* The outcome c of the selection: the slices, or the panic.
Classed(c) ==
  /\ found' = [found EXCEPT !.arr = c.arr]
  /\ selected' = c.sel
  /\ pc' = (IF c.panic THEN "exit" ELSE "link")
  /\ exit' = (IF c.panic THEN 2 ELSE exit)

\* Rotate, line 126: r.clear(), its error dropped.
Clear(fail) ==
  /\ pc = "clear"
  /\ Staged("clear", clear(fs, DestinationDir, fail))
  /\ pc' = "select"
  /\ UNCHANGED <<config, faults, found, selected, exit, runs, scanned, srcBefore,
                 dstBefore, first>>

\* Rotate, lines 128-170; a slice bound out of range panics (exit status 2).
Select ==
  /\ pc = "select"
  /\ Classed(Classify(found, Policy))
  /\ UNCHANGED <<config, faults, fs, runs, scanned, srcBefore, dstBefore, fsfail,
                 first, failed>>

\* Rotate, lines 173-175: r.link(), its error printed.
Link(fail) ==
  /\ pc = "link"
  /\ Staged("link", link(fs, DestinationDir, SelectedFiles, fail))
  /\ pc' = "remove"
  /\ UNCHANGED <<config, faults, found, selected, exit, runs, scanned, srcBefore,
                 dstBefore, first>>

\* Rotate, lines 178-180: r.remove(), its error printed; then main prints
\* the selection and returns nil (exit status 0).
Remove(fail) ==
  /\ pc = "remove"
  /\ Staged("remove", remove(fs, SourceDir, FoundFiles, SelectedFiles, Dry, fail))
  /\ pc' = "exit"
  /\ exit' = 0
  /\ UNCHANGED <<config, faults, found, selected, runs, scanned, srcBefore,
                 dstBefore, first>>

\* The program is started again with the same flags on the directories as
\* the previous run left them.
Rerun ==
  /\ pc = "exit"
  /\ runs < MaxRuns
  /\ runs' = runs + 1
  /\ first' = (IF runs = 1
               THEN [done |-> TRUE, sel |-> SelectedFiles,
                     src |-> Dir(SourceDir), dst |-> Dir(DestinationDir),
                     exit |-> exit, failed |-> failed]
               ELSE first)
  /\ found' = [arr |-> <<>>, len |-> 0]
  /\ selected' = NilSlice
  /\ pc' = "main"
  /\ exit' = -1
  /\ scanned' = <<>>
  /\ srcBefore' = Dir(SourceDir)
  /\ dstBefore' = Dir(DestinationDir)
  /\ fsfail' = FALSE
  /\ failed' = {}
  /\ UNCHANGED <<config, faults, fs>>

Next ==
  \/ ReadFails
  \/ ReadEmpty
  \/ Read
  \/ Clear(0)
  \/ Select
  \/ Link(0)
  \/ Remove(0)
  \/ Rerun

Spec == Init /\ [][Next]_vars

\* ------------------------------------------------- runs with failing calls
\* At most one stage of the first run has a failing call.
OneFault ==
  {f \in [Stages -> 0..MaxFault] : Cardinality({st \in Stages : f[st] > 0}) <= 1}

\* The source directory of the runs with failing calls can also hold
\* "daily-2024-01-01T00-00-00.sql.gz".
FaultSourceNames == SourceNames \cup {MkName(<<"daily">>, 1)}

\* The small policies, with a separate destination or the source as its
\* own destination, and a filesystem that may fail one call of the first
\* run.
FaultInit ==
  /\ Dry \in BOOLEAN
  /\ SourceDir = "S"
  /\ DestinationDir \in {"D", "S"}
  /\ Keep \in 0..1
  /\ KeepDays \in 0..1
  /\ KeepWeeks \in 0..1
  /\ KeepMonths = 0
  /\ KeepYears = 0
  /\ \E src \in SUBSET FaultSourceNames :
       /\ Cardinality(src) <= MaxFiles
       /\ fs = [d \in {"S", "D"} |->
                  IF d = "S" THEN src
                  ELSE IF DestinationDir = "D" THEN StaleEntries ELSE {}]
       /\ srcBefore = src
       /\ dstBefore = (IF DestinationDir = "S" THEN src ELSE StaleEntries)
  /\ found = [arr |-> <<>>, len |-> 0]
  /\ selected = NilSlice
  /\ pc = "main"
  /\ exit = -1
  /\ runs = 1
  /\ scanned = <<>>
  /\ fsfail = FALSE
  /\ first = NoRun
  /\ faults \in OneFault
  /\ failed = {}

FaultNext ==
  \/ ReadEmpty
  \/ Read
  \/ Clear(Fault("clear"))
  \/ Select
  \/ Link(Fault("link"))
  \/ Remove(Fault("remove"))
  \/ Rerun

FaultSpec == FaultInit /\ [][FaultNext]_vars

\* ------------------------------------------------ runs with larger quotas
\* One run in the usual configuration, not dry, every tier quota up to
\* MaxQuota.
TierInit ==
  /\ Dry = FALSE
  /\ SourceDir = "S"
  /\ DestinationDir = "D"
  /\ Keep \in 0..MaxKeep
  /\ KeepDays \in 0..MaxQuota
  /\ KeepWeeks \in 0..MaxQuota
  /\ KeepMonths \in 0..MaxQuota
  /\ KeepYears \in 0..MaxQuota
  /\ \E src \in SUBSET SourceNames :
       /\ Cardinality(src) <= MaxFiles
       /\ fs = [d \in {"S", "D"} |-> IF d = "S" THEN src ELSE StaleEntries]
       /\ srcBefore = src
  /\ dstBefore = StaleEntries
  /\ found = [arr |-> <<>>, len |-> 0]
  /\ selected = NilSlice
  /\ pc = "main"
  /\ exit = -1
  /\ runs = 1
  /\ scanned = <<>>
  /\ fsfail = FALSE
  /\ first = NoRun
  /\ faults = NoFaults
  /\ failed = {}

TierNext ==
  \/ ReadEmpty
  \/ Read
  \/ Clear(0)
  \/ Select
  \/ Link(0)
  \/ Remove(0)

TierSpec == TierInit /\ [][TierNext]_vars

\* ------------------------------------------------------------- properties
\* The run went through Rotate to its end.
Rotated == pc = "exit" /\ exit = 0 /\ found.len > 0

\* The selection of this run has been made (and did not panic).
SelectionMade == pc \in {"link", "remove"} \/ Rotated

\* The run ended in the panic of a slice expression.
Panicked == pc = "exit" /\ exit = 2

\* Read found no backup file and main returned.
EmptyScan == pc = "exit" /\ SourceDir \in DOMAIN fs /\ found.len = 0

TagsIn(tags) == {tags[j] : j \in 1..Len(tags)}

\* The tags a name carries in a selection: those of all its entries.
TagsOf(sel, name) ==
  UNION {TagsIn(sel[i].Tags) : i \in {k \in 1..Len(sel) : sel[k].Name = name}}

\* The selection as a mapping from name to tags.
Selection(sel) == [name \in ResultMap(sel) |-> TagsOf(sel, name)]

\* The link names of a selection, one per (tag, file) pair.
LinksOf(sel) ==
  UNION {{LinkName(t, sel[i].Name) : t \in TagsIn(sel[i].Tags)} : i \in 1..Len(sel)}

\* The bucket keys as the specification words them: the week key pairs the
\* ISO week number with the ISO week-year.
BucketKey(tier, t) == IF tier = "weekly" THEN ISOWeek(t) ELSE Key(tier, t)

\* The times of the selected files that carry a tier's tag.
Tagged(tier) ==
  {SelectedFiles[i].Time :
     i \in {k \in 1..Len(SelectedFiles) : tier \in TagsIn(SelectedFiles[k].Tags)}}

\* C1: for 0 <= Keep <= number of scanned files, after Rotate the Keep
\* newest scanned files (Keep of them, none older than a file left out;
\* files of equal timestamp rank in either order) are all in SelectedFiles
\* and carry the tag "keep", whatever the tier quotas.
C1_HeadKept ==
  (SelectionMade /\ Keep <= Len(scanned)) =>
    \E head \in SUBSET (1..Len(scanned)) :
      /\ Cardinality(head) = Keep
      /\ \A i \in head : \A j \in (1..Len(scanned)) \ head :
           ~After(scanned[j].Time, scanned[i].Time)
      /\ \A i \in head :
           /\ scanned[i].Name \in ResultMap(SelectedFiles)
           /\ "keep" \in TagsOf(SelectedFiles, scanned[i].Name)

\* A run with a head of two files, a third file behind it and tiers on.
C1_Witness ==
  /\ Rotated
  /\ Keep = 2
  /\ Len(scanned) = 3
  /\ KeepDays = 1
  /\ KeepWeeks = 1
  /\ "keep" \in TagsOf(SelectedFiles, scanned[2].Name)
  /\ "daily" \in TagsOf(SelectedFiles, scanned[3].Name)

\* C2: when Keep exceeds the number of scanned files (at least one), Rotate
\* does not fail: every scanned file is selected with the tag "keep", and
\* the run goes on to linking and pruning with nothing pruned.
C2_KeepClamped ==
  (pc = "exit" /\ found.len > 0 /\ Keep > Len(scanned)) =>
    /\ exit = 0
    /\ \A i \in 1..Len(scanned) :
         "keep" \in TagsOf(SelectedFiles, scanned[i].Name)
    /\ Dir(SourceDir) = srcBefore

\* C3: after Rotate, for each tier the number of distinct bucket keys of
\* the files carrying the tier's tag is at most the tier's quota, for the
\* keys as the code computes them and as the specification words them; a
\* tier whose quota is zero tags no file.
C3_TierQuota ==
  SelectionMade =>
    \A tier \in Tiers :
      /\ Cardinality({KeyOf[tier][t] : t \in Tagged(tier)}) <= Quota(Policy, tier)
      /\ Cardinality({BucketKey(tier, t) : t \in Tagged(tier)}) <= Quota(Policy, tier)
      /\ Quota(Policy, tier) = 0 => Tagged(tier) = {}

\* A run where the daily tier is full with one bucket although the files
\* behind the head span several days, and the monthly tier is off.
C3_Witness ==
  /\ Rotated
  /\ Keep = 0
  /\ KeepDays = 1
  /\ KeepWeeks = 2
  /\ KeepMonths = 0
  /\ Cardinality({Key("daily", scanned[i].Time) : i \in 1..Len(scanned)}) = 3
  /\ Cardinality(Tagged("daily")) = 1
  /\ Cardinality(Tagged("weekly")) = 2

\* C4: after a run without dry-run in which no filesystem operation fails,
\* every file Read returned whose name is not in SelectedFiles has been
\* deleted from the source directory (Keep <= number of files).
C4_UnselectedDeleted ==
  (Rotated /\ ~Dry /\ ~fsfail /\ Keep <= Len(scanned)) =>
    \A i \in 1..Len(scanned) :
      scanned[i].Name \notin ResultMap(SelectedFiles) =>
        scanned[i].Name \notin Dir(SourceDir)

\* C5: in every run, dry or not, no file whose name is in SelectedFiles is
\* ever removed from the source directory.
C5_SelectedStay ==
  SelectionMade =>
    \A name \in ResultMap(SelectedFiles) :
      name \in srcBefore => name \in Dir(SourceDir)

\* C6: with dry-run enabled, the set of files in the source directory after
\* the run equals the set before the run, for every configuration of the
\* source and destination paths.
C6_DryRunKeepsSource ==
  (Dry /\ pc = "exit") => Dir(SourceDir) = srcBefore

\* C7: after a run in which no filesystem operation fails (it ends with
\* exit status 0), the destination holds exactly the links <tag>-<filename>
\* of the (tag, file) pairs of the selection and no other entry, whatever
\* it held before the run.
C7_DestinationIsSelection ==
  (pc = "exit" /\ exit = 0 /\ ~fsfail) =>
    Dir(DestinationDir) = LinksOf(SelectedFiles)

\* C8: running Read then Rotate twice in succession, not dry-run, with the
\* same policy and no outside change: the second run produces the same
\* selection as the first, deletes no source file, and leaves the
\* destination with the same set of links.
C8_SecondRunSame ==
  (pc = "exit" /\ runs = 2 /\ ~Dry /\ first.exit = 0 /\ exit = 0) =>
    /\ Selection(SelectedFiles) = Selection(first.sel)
    /\ Dir(SourceDir) = srcBefore
    /\ Dir(DestinationDir) = first.dst

\* C9: when Read returns no backup file, the run ends with a non-zero exit
\* status and has changed nothing in the source or the destination.
C9_EmptyScanFails ==
  EmptyScan =>
    /\ exit # 0
    /\ Dir(SourceDir) = srcBefore
    /\ Dir(DestinationDir) = dstBefore

\* C10: if the destination path is missing while the source is valid and
\* holds backup files, the run stops before any mutation: no source file is
\* deleted.
C10_MissingDestinationAborts ==
  (DestinationDir \notin DOMAIN fs /\ SourceDir \in DOMAIN fs) =>
    Dir(SourceDir) = srcBefore

\* C11: if clear() fails (listing the destination or removing one of its
\* entries), the run stops there: no link is created in the destination
\* and no source file is deleted in that run.
C11_ClearFailureStops ==
  "clear" \in failed =>
    /\ Dir(DestinationDir) \subseteq dstBefore
    /\ Dir(SourceDir) = srcBefore

\* The scanned files that are not selected and still in the source.
Leftover ==
  {scanned[i].Name : i \in {k \in 1..Len(scanned) :
     /\ scanned[k].Name \notin ResultMap(SelectedFiles)
     /\ scanned[k].Name \in Dir(SourceDir)}}

\* C12: when one deletion fails during pruning (not dry-run, nothing else
\* failing), every other unselected scanned file is still deleted: at most
\* the file whose deletion failed is left in the source.
C12_PruneGoesOn ==
  (Rotated /\ ~Dry /\ failed = {"remove"}) => Cardinality(Leftover) <= 1

\* The link names link() asks for, in its order, each once.
RECURSIVE Distinct(_)
Distinct(names) ==
  IF names = <<>> THEN <<>>
  ELSE LET init == Distinct(SubSeq(names, 1, Len(names) - 1))
           last == names[Len(names)]
       IN  IF \E i \in 1..Len(init) : init[i] = last THEN init
           ELSE Append(init, last)

LinkOrder(sel) ==
  Distinct([i \in 1..Len(LinkPairs(sel)) |->
              LinkName(LinkPairs(sel)[i].tag, LinkPairs(sel)[i].name)])

\* C13: when os.Symlink call number k fails in link() (the destination
\* having been cleared), the destination holds the k - 1 links created
\* before it, in the order of link(), and none of the links that follow,
\* until the end of the run.
C13_LinkFailureKeepsEarlier ==
  (pc \in {"remove", "exit"} /\ "link" \in failed /\ "clear" \notin failed) =>
    /\ faults.link \in 1..Len(LinkOrder(SelectedFiles))
    /\ Dir(DestinationDir) =
         {LinkOrder(SelectedFiles)[i] : i \in 1..(faults.link - 1)}

\* C14: the stages run in the order clear, link, prune, and no source file
\* is deleted before the destination has been cleared and link() has
\* returned: until remove() runs the source holds every file it held when
\* the run started.
C14_PruneComesLast ==
  pc \in {"main", "clear", "select", "link", "remove"} =>
    srcBefore \subseteq Dir(SourceDir)

\* The directories as they were when this run started.
DirsBefore ==
  [d \in {"S", "D"} |->
     IF d = SourceDir THEN srcBefore
     ELSE IF d = DestinationDir THEN dstBefore ELSE {}]

\* A whole run of Read and Rotate, with the given dry-run flag and no
\* failing call, from the directories this run started with: its selection
\* and the directories it leaves.
TwinEnd(dry, fnd, cl, dirs) ==
  [sel  |-> View(cl.arr, cl.sel),
   dirs |-> remove(link(dirs, DestinationDir, View(cl.arr, cl.sel), 0).dirs,
                   SourceDir, [i \in 1..fnd.len |-> cl.arr[i]],
                   View(cl.arr, cl.sel), dry, 0).dirs]

TwinSelect(dry, fnd) ==
  TwinEnd(dry, fnd, Classify(fnd, Policy), clear(DirsBefore, DestinationDir, 0).dirs)

Twin(dry) == TwinSelect(dry, ReadFiles(srcBefore))

SameAsTwin(twin) ==
  /\ Selection(SelectedFiles) = Selection(twin.sel)
  /\ DestinationDir \in DOMAIN fs => fs[DestinationDir] = twin.dirs[DestinationDir]

\* C15: a run and the run with the other dry-run flag, from the same
\* directories and policy, compute the same selection (files and tags) and
\* leave the same entries in the destination; the dry run deletes no
\* source file.
C15_DryRunSameSelection ==
  Rotated =>
    /\ SameAsTwin(Twin(~Dry))
    /\ Dry => Dir(SourceDir) = srcBefore

\* No two scanned files have the same calendar day.
OnePerDay ==
  \A i, j \in 1..Len(scanned) :
    Key("daily", scanned[i].Time) = Key("daily", scanned[j].Time) => i = j

\* The head and the daily files of the scenario: the Keep newest with
\* "keep", the KeepDays next with "daily".
HeadThenDaily ==
  [name \in {scanned[i].Name : i \in 1..(Keep + KeepDays)} |->
     IF \E i \in 1..Keep : scanned[i].Name = name THEN {"keep"} ELSE {"daily"}]

\* C16: with the weekly, monthly and yearly tiers off and one file per
\* calendar day at most, for Keep + KeepDays <= n scanned files the
\* selection is the Keep newest files tagged "keep" and the KeepDays next
\* tagged "daily", each once, and a run without dry-run in which nothing
\* fails has deleted the n - Keep - KeepDays other files from the source.
C16_KeepThenDaily ==
  (/\ SelectionMade
   /\ KeepWeeks = 0 /\ KeepMonths = 0 /\ KeepYears = 0
   /\ OnePerDay
   /\ Keep + KeepDays <= Len(scanned)) =>
    /\ Selection(SelectedFiles) = HeadThenDaily
    /\ Len(SelectedFiles) = Keep + KeepDays
    /\ (Rotated /\ ~Dry /\ ~fsfail) =>
         /\ Leftover = {}
         /\ Cardinality({scanned[i].Name : i \in 1..Len(scanned)}
                         \ Dir(SourceDir)) >= Len(scanned) - Keep - KeepDays

\* Three files of three days, keep = 1, keepDays = 1: two selected, the
\* oldest deleted.
C16_Witness ==
  /\ Rotated /\ ~Dry /\ ~fsfail /\ Usual /\ runs = 1
  /\ Keep = 1 /\ KeepDays = 1
  /\ KeepWeeks = 0 /\ KeepMonths = 0 /\ KeepYears = 0
  /\ Len(scanned) = 3
  /\ OnePerDay
  /\ TagsOf(SelectedFiles, scanned[1].Name) = {"keep"}
  /\ TagsOf(SelectedFiles, scanned[2].Name) = {"daily"}
  /\ scanned[3].Name \notin Dir(SourceDir)
  /\ {scanned[1].Name, scanned[2].Name} \subseteq Dir(SourceDir)

\* The scanned files after the head that are newer than the one at index i
\* (the list is newest first).
TailBefore(i) == (Keep + 1)..(i - 1)

\* The scanned file at index i is the most recent file after the head of
\* its day, week, month and year buckets, for the keys of the code and the
\* keys of the specification.
NewestOfItsBuckets(i) ==
  \A tier \in Tiers : \A j \in TailBefore(i) :
    /\ KeyOf[tier][scanned[j].Time] # KeyOf[tier][scanned[i].Time]
    /\ BucketKey(tier, scanned[j].Time) # BucketKey(tier, scanned[i].Time)

\* The newer files after the head leave room in the tier's quota.
Room(i, tier) ==
  Cardinality({KeyOf[tier][scanned[j].Time] : j \in TailBefore(i)})
    < Quota(Policy, tier)

\* C17: a file after the head that is the most recent of its day, week,
\* month and year buckets, each tier having room left in its quota,
\* carries the four tags daily, weekly, monthly and yearly.
C17_AllFourTags ==
  SelectionMade =>
    \A i \in (Keep + 1)..Len(scanned) :
      (NewestOfItsBuckets(i) /\ \A tier \in Tiers : Room(i, tier)) =>
        Tiers \subseteq TagsOf(SelectedFiles, scanned[i].Name)

\* The name has a link <tag>-<name> in the destination.
Linked(name) == \E tag \in TagSet : LinkName(tag, name) \in Dir(DestinationDir)

\* C18: after a run without dry-run in which no filesystem operation
\* fails, every file the source held whose name matches the backup pattern
\* and that has no link in the destination has been deleted, whether its
\* timestamp could be parsed or not.
C18_UnlinkedDeleted ==
  (Rotated /\ ~Dry /\ ~fsfail) =>
    \A name \in srcBefore :
      (Matches(name) /\ ~Linked(name)) => name \notin Dir(SourceDir)

\* C19: a file after the head that carries a tier's tag is the newest of
\* the files after the head with its bucket key (as the code computes the
\* key): no newer file after the head has the same key.
C19_NewestOfBucketTagged ==
  SelectionMade =>
    \A tier \in Tiers : \A i \in (Keep + 1)..Len(scanned) :
      tier \in TagsOf(SelectedFiles, scanned[i].Name) =>
        \A j \in TailBefore(i) :
          KeyOf[tier][scanned[j].Time] # KeyOf[tier][scanned[i].Time]

\* C20: the tier loop offers each scanned file after the head to the
\* tiers exactly once, in newest-first order: the names its iterations
\* read are the names at the positions Keep + 1, Keep + 2, ... of the list
\* Read returned.
C20_EachTailFileOnce ==
  SelectionMade =>
    Offered(Slice(scanned), Policy)
      = [i \in 1..(Len(scanned) - Keep) |-> scanned[Keep + i].Name]

\* The entries of a selection with the given name.
EntriesOf(sel, name) == {k \in 1..Len(sel) : sel[k].Name = name}

\* C21: after Rotate, each selected name has exactly one entry in
\* SelectedFiles, and that entry carries all the tags the file earned.
C21_SelectedOnce ==
  SelectionMade =>
    \A name \in ResultMap(SelectedFiles) :
      /\ Cardinality(EntriesOf(SelectedFiles, name)) = 1
      /\ \A k \in EntriesOf(SelectedFiles, name) :
           TagsIn(SelectedFiles[k].Tags) = TagsOf(SelectedFiles, name)

\* C22: two scanned files have the same weekly bucket key in the tier loop
\* if and only if they have the same ISO week-year and the same ISO week
\* number.
C22_WeekKeyIsISO ==
  SelectionMade =>
    \A i, j \in 1..Len(scanned) :
      KeyOf["weekly"][scanned[i].Time] = KeyOf["weekly"][scanned[j].Time]
        <=> ISOWeek(scanned[i].Time) = ISOWeek(scanned[j].Time)

\* Read has returned a list in this run.
ReadDone == pc \in {"clear", "select", "link", "remove"} \/ Rotated \/ Panicked

\* The list Read returned holds each source entry whose name matches the
\* pattern and whose timestamp parses, once, and no other; no element is
\* older than the next.
ReadList ==
  /\ {scanned[i].Name : i \in 1..Len(scanned)}
       = {n \in srcBefore : Matches(n) /\ ParseOK(n)}
  /\ \A i, j \in 1..Len(scanned) :
       /\ scanned[i].Name = scanned[j].Name => i = j
       /\ i < j => ~After(scanned[j].Time, scanned[i].Time)
  /\ \A i \in 1..Len(scanned) : scanned[i].Time = Parse(scanned[i].Name)

\* The source entries that do not match the pattern are neither linked
\* nor deleted.
OthersUntouched ==
  \A n \in srcBefore :
    ~Matches(n) => (n \in Dir(SourceDir) /\ ~Linked(n))

\* C23: Read returns exactly the matching entries with a parsable
\* timestamp, newest first; an unparsable timestamp does not fail the scan
\* (the scan fails only on an unreadable source); entries that do not
\* match the pattern are never linked or deleted by the run.
C23_ReadList ==
  /\ ReadDone => ReadList
  /\ (pc = "exit" /\ exit = 1) => SourceDir \notin DOMAIN fs
  /\ OthersUntouched

\* The first run cleared the destination and its link() failed part-way.
FirstRunPartial == first.done /\ first.failed = {"link"}

TiersOn == {tier \in Tiers : Quota(Policy, tier) > 0}

\* C25: after Rotate a file of the head carries the tag "keep" and no
\* other, a file after the head never carries "keep", and the head
\* occupies no bucket: the first file after the head is tagged by every
\* tier that is on, also when a file of the head has the same bucket key.
C25_KeepExcludesTiers ==
  SelectionMade =>
    /\ \A i \in 1..Len(scanned) :
         IF i <= Keep
         THEN TagsOf(SelectedFiles, scanned[i].Name) = {"keep"}
         ELSE "keep" \notin TagsOf(SelectedFiles, scanned[i].Name)
    /\ Keep < Len(scanned) =>
         TiersOn \subseteq TagsOf(SelectedFiles, scanned[Keep + 1].Name)

\* The head file and the file after it are of the same day: the older one
\* is the daily representative.
C25_Witness ==
  /\ SelectionMade
  /\ Keep = 1
  /\ KeepDays = 1
  /\ Len(scanned) >= 2
  /\ Key("daily", scanned[1].Time) = Key("daily", scanned[2].Time)
  /\ TagsOf(SelectedFiles, scanned[1].Name) = {"keep"}
  /\ "daily" \in TagsOf(SelectedFiles, scanned[2].Name)

\* The link was made by link() in this run: it is in the destination and
\* is not an entry a failed clear() left there.
MadeThisRun(l) ==
  /\ l \in Dir(DestinationDir)
  /\ ~("clear" \in failed /\ l \in dstBefore)

\* C26: at the end of a run without dry-run, with or without failures,
\* every link the run created in the destination is the link of a file
\* that is still in the source directory.
C26_NoDanglingLink ==
  (Rotated /\ ~Dry) =>
    \A k \in 1..Len(SelectedFiles) : \A tag \in TagsIn(SelectedFiles[k].Tags) :
      MadeThisRun(LinkName(tag, SelectedFiles[k].Name)) =>
        SelectedFiles[k].Name \in Dir(SourceDir)

====
